---- MODULE Spec2Model ----
(***************************************************************************)
(* The file-edit tool of the coding agent (createEditTool.execute in       *)
(* packages/coding-agent/src/core/tools/edit.ts) as a state machine.       *)
(*                                                                         *)
(* Text is a sequence of one-character strings.  Offsets are 0-based as in *)
(* the TypeScript source; Sub(s, from, to) is String.prototype.substring.  *)
(* The helpers the tool imports from ./edit-diff (stripBom,                *)
(* detectLineEnding, normalizeToLF, restoreLineEndings, findEditMatch,     *)
(* generateDiffString, DEFAULT_FUZZY_THRESHOLD) are modelled from the      *)
(* design document, sections 4.1, 4.2 and 4.4.                             *)
(***************************************************************************)
EXTENDS Integers, Sequences, FiniteSets, TLC

\* ------------------------------------------------------------------ bounds

\* Longest canonical file content enumerated by Init.
MaxLen == 3
\* Passes of the all-mode approximate loop the model follows before it stops
\* following a run (the code's loop itself has no cap).
MaxIter == 4
\* Invocations of the same request in a row (the first run and its re-runs).
MaxRuns == 2
\* Most characters and terminators of a raw content enumerated by the
\* normalizer's round-trip specification.
MaxRaw == 4
\* Most next() calls on a Source the model records since its sequence was set.
MaxMinted == 3
\* Most calls to the custom-api registry the model follows.
MaxApiCalls == 3

\* ------------------------------------------------------------- characters

LF == "\n"
CR == "\r"
SP == " "
BOM == "BOM"

IsWhitespace(c) == c \in {SP, LF, CR}

Min(a, b) == IF a <= b THEN a ELSE b
Max(a, b) == IF a >= b THEN a ELSE b

\* All sequences over S of length lo..hi.
SeqsOf(S, lo, hi) == UNION {[1..n -> S] : n \in lo..hi}

\* An offset clamped to the text, as substring clamps its arguments.
Clamp(s, i) == Max(0, Min(i, Len(s)))

\* String.prototype.substring(from, to) for from <= to.
Sub(s, from, to) == SubSeq(s, Clamp(s, from) + 1, Clamp(s, to))

\* String.prototype.substring(from).
SubFrom(s, from) == SubSeq(s, Clamp(s, from) + 1, Len(s))

\* Whether frag occurs in s at 0-based offset i.
OccursAt(s, frag, i) ==
    /\ i >= 0
    /\ i + Len(frag) <= Len(s)
    /\ \A k \in 1..Len(frag) : s[i + k] = frag[k]

\* String.prototype.indexOf(frag, from): the least offset >= from, or -1.
IndexOf(s, frag, from) ==
    LET hits == {i \in from..(Len(s) - Len(frag)) : OccursAt(s, frag, i)}
    IN IF hits = {} THEN -1 ELSE CHOOSE i \in hits : \A j \in hits : i <= j

\* String.prototype.endsWith on a path given as a sequence of components.
EndsWith(path, suffix) == Len(path) > 0 /\ path[Len(path)] = suffix

\* String.prototype.split(sep) for a non-empty separator.
RECURSIVE Split(_, _)
Split(s, sep) ==
    LET i == IndexOf(s, sep, 0)
    IN IF i = -1 THEN <<s>>
       ELSE <<Sub(s, 0, i)>> \o Split(SubFrom(s, i + Len(sep)), sep)

\* Array.prototype.join(glue).
RECURSIVE Join(_, _)
Join(parts, glue) ==
    IF Len(parts) = 0 THEN <<>>
    ELSE IF Len(parts) = 1 THEN parts[1]
    ELSE parts[1] \o glue \o Join(Tail(parts), glue)

\* ------------------------------------------------- document normalizer (4.1)

\* stripBom: a leading byte-order marker is removed and kept.
stripBom(raw) ==
    IF Len(raw) > 0 /\ raw[1] = BOM
    THEN [bom |-> <<BOM>>, text |-> Tail(raw)]
    ELSE [bom |-> <<>>, text |-> raw]

\* Number of carriage-return+linefeed terminators of s.
CountCRLF(s) == Cardinality({i \in 1..(Len(s) - 1) : s[i] = CR /\ s[i + 1] = LF})

\* Number of linefeed-only terminators of s.
CountLF(s) == Cardinality({i \in 1..Len(s) : s[i] = LF /\ (i = 1 \/ s[i - 1] # CR)})

\* detectLineEnding: the convention to restore; the majority one when mixed.
detectLineEnding(content) ==
    IF CountCRLF(content) > CountLF(content) THEN "CRLF" ELSE "LF"

\* normalizeToLF: every terminator (a carriage-return+linefeed pair, a lone
\* carriage return, a linefeed) becomes a single linefeed.
RECURSIVE normalizeToLF(_)
normalizeToLF(s) ==
    IF Len(s) = 0 THEN <<>>
    ELSE IF Len(s) >= 2 /\ s[1] = CR /\ s[2] = LF
         THEN <<LF>> \o normalizeToLF(SubFrom(s, 2))
         ELSE <<(IF s[1] = CR THEN LF ELSE s[1])>> \o normalizeToLF(Tail(s))

\* restoreLineEndings: re-expand linefeeds to the recorded convention.
RECURSIVE restoreLineEndings(_, _)
restoreLineEndings(s, ending) ==
    IF ending = "LF" \/ Len(s) = 0 THEN s
    ELSE (IF s[1] = LF THEN <<CR, LF>> ELSE <<s[1]>>)
         \o restoreLineEndings(Tail(s), ending)

\* ------------------------------------------------------ match engine (4.2)

\* DEFAULT_FUZZY_THRESHOLD, as a percentage ("a high default").
DEFAULT_FUZZY_THRESHOLD == 95

\* How far a window's length may differ from the fragment's.
WindowTolerance == 1

NoCandidate == [startIndex |-> -1, actualText |-> <<>>, confidence |-> 0, kind |-> "none"]

\* Runs of whitespace collapse to a single separator.
RECURSIVE CollapseWhitespace(_)
CollapseWhitespace(s) ==
    IF Len(s) = 0 THEN <<>>
    ELSE IF IsWhitespace(s[1])
         THEN IF Len(s) >= 2 /\ IsWhitespace(s[2])
              THEN CollapseWhitespace(Tail(s))
              ELSE <<SP>> \o CollapseWhitespace(Tail(s))
         ELSE <<s[1]>> \o CollapseWhitespace(Tail(s))

\* Edit distance of two texts.
Levenshtein(a, b) ==
    LET d[i \in 0..Len(a), j \in 0..Len(b)] ==
            IF i = 0 THEN j
            ELSE IF j = 0 THEN i
            ELSE Min(Min(d[i - 1, j] + 1, d[i, j - 1] + 1),
                     d[i - 1, j - 1] + (IF a[i] = b[j] THEN 0 ELSE 1))
    IN d[Len(a), Len(b)]

\* Similarity of a span to the fragment over whitespace-collapsed text, in percent.
Similarity(span, frag) ==
    LET a == CollapseWhitespace(span)
        b == CollapseWhitespace(frag)
        m == Max(Len(a), Len(b))
    IN IF m = 0 THEN 100 ELSE ((m - Levenshtein(a, b)) * 100) \div m

\* Step 1: the offsets of the non-overlapping exact occurrences, left to right.
RECURSIVE ExactOccurrencesFrom(_, _, _)
ExactOccurrencesFrom(content, frag, from) ==
    LET i == IndexOf(content, frag, from)
    IN IF i = -1 THEN <<>>
       ELSE <<i>> \o ExactOccurrencesFrom(content, frag, i + Len(frag))

ExactOccurrences(content, frag) == ExactOccurrencesFrom(content, frag, 0)

\* Step 2: the spans the sliding window visits, each scored.
FuzzyCandidates(content, frag) ==
    {[startIndex |-> s,
      actualText |-> Sub(content, s, s + n),
      confidence |-> Similarity(Sub(content, s, s + n), frag),
      kind |-> "approximate"] :
        <<s, n>> \in {w \in (0..Len(content)) \X
                            (Max(1, Len(frag) - WindowTolerance)..(Len(frag) + WindowTolerance)) :
                        w[1] + w[2] <= Len(content)}}

\* Distance of a candidate's length from the fragment's.
LengthGap(c, frag) ==
    IF Len(c.actualText) >= Len(frag) THEN Len(c.actualText) - Len(frag)
    ELSE Len(frag) - Len(c.actualText)

\* Whether candidate c is preferred to candidate d: the higher score, then the
\* leftmost start, then the length nearest the fragment's, then the shorter.
Better(c, d, frag) ==
    \/ c.confidence > d.confidence
    \/ /\ c.confidence = d.confidence
       /\ \/ c.startIndex < d.startIndex
          \/ /\ c.startIndex = d.startIndex
             /\ \/ LengthGap(c, frag) < LengthGap(d, frag)
                \/ /\ LengthGap(c, frag) = LengthGap(d, frag)
                   /\ Len(c.actualText) <= Len(d.actualText)

BestCandidate(content, frag) ==
    LET cs == FuzzyCandidates(content, frag)
    IN IF cs = {} THEN NoCandidate
       ELSE CHOOSE c \in cs : \A d \in cs : c = d \/ Better(c, d, frag)

\* findEditMatch(content, fragment, {allowFuzzy, similarityThreshold}).
findEditMatch(content, frag, allowFuzzy, threshold) ==
    LET occ == ExactOccurrences(content, frag)
    IN IF Len(occ) = 1
       THEN [match |-> [startIndex |-> occ[1], actualText |-> frag,
                        confidence |-> 100, kind |-> "exact"],
             occurrences |-> 1,
             closest |-> NoCandidate]
       ELSE IF Len(occ) > 1
       THEN [match |-> NoCandidate, occurrences |-> Len(occ), closest |-> NoCandidate]
       ELSE IF ~allowFuzzy
       THEN [match |-> NoCandidate, occurrences |-> 0, closest |-> NoCandidate]
       ELSE LET best == BestCandidate(content, frag)
            IN IF best.kind # "none" /\ best.confidence >= threshold
               THEN [match |-> best, occurrences |-> 0, closest |-> best]
               ELSE [match |-> NoCandidate, occurrences |-> 0, closest |-> best]

\* ---------------------------------------------------- diff generator (4.4)

\* generateDiffString(before, after).firstChangedLine: the 1-indexed number of
\* the first line at which the two line sequences diverge (0: none).
firstChangedLine(before, after) ==
    LET x == Split(before, <<LF>>)
        y == Split(after, <<LF>>)
        diff == {i \in 1..Max(Len(x), Len(y)) :
                    i > Len(x) \/ i > Len(y) \/ x[i] # y[i]}
    IN IF diff = {} THEN 0 ELSE CHOOSE i \in diff : \A j \in diff : i <= j

\* ------------------------------------------------------------ the edit tool

Paths == {<<"f", ".txt">>, <<"nb", ".ipynb">>}

\* IsNotebook comparing the whole path instead of its suffix.
IsNotebookWholePath(path) == path = <<".ipynb">>

\* Line 56: path.endsWith(".ipynb").
IsNotebook(path) == EndsWith(path, ".ipynb")

NoFile == [exists |-> FALSE, content |-> <<>>]

\* Canonical texts a file may hold, and the raw forms they are stored in:
\* as they are, or with a byte-order marker and CRLF terminators.
FileAlphabet == {"a", SP, LF}
CanonicalContents == SeqsOf(FileAlphabet, 0, MaxLen)
RawContents ==
    CanonicalContents \cup {<<BOM>> \o restoreLineEndings(c, "CRLF") : c \in CanonicalContents}

\* The fragments a request searches for and the replacements it gives.  An
\* empty oldText is left out: the match engine's answer to it is not specified.
OldTexts ==
    {<<"a">>, <<LF>>, <<"a", "a">>, <<"a", CR, LF>>, <<"a", SP>>, <<SP, "a">>,
     <<"a", SP, "a">>}
NewTexts ==
    {<<>>, <<"a">>, <<SP>>, <<LF>>, <<"a", LF>>, <<"a", SP>>, <<"a", "a">>,
     <<"a", SP, "a">>}

NoOutcome ==
    [kind |-> "none", occurrences |-> 0, closest |-> NoCandidate, threshold |-> 0,
     replacementCount |-> 0, firstChangedLine |-> 0, diagnostics |-> FALSE]

Failure(kind) == [NoOutcome EXCEPT !.kind = kind]

\* EditMatchError(path, oldText, closest, {allowFuzzy, similarityThreshold, ...}).
EditMatchError(closest, threshold) ==
    [NoOutcome EXCEPT !.kind = "NoMatch", !.closest = closest, !.threshold = threshold]

NoLocals ==
    [rawContent |-> <<>>, bom |-> <<>>, originalEnding |-> "LF",
     normalizedContent |-> <<>>, normalizedOldText |-> <<>>, normalizedNewText |-> <<>>,
     normalizedNewContent |-> <<>>, replacementCount |-> 0, match |-> NoCandidate,
     finalContent |-> <<>>]

VARIABLES
    files,       \* path -> [exists, content]: the file system
    request,     \* [path, oldText, newText, all]: the tool call's arguments
    allowFuzzy,  \* options.fuzzyMatch ?? true
    pc,          \* where execute stands
    loc,         \* execute's local variables
    outcome,     \* what execute threw or returned
    io,          \* the collaborator calls made by this invocation, in order
    matchCalls,  \* how many times this invocation called findEditMatch
    applied,     \* the content before each replacement of this invocation, with the match replaced
    before,      \* the file system when this invocation began
    run,         \* which invocation of the request this is
    self,        \* the invocation whose code is running on the thread
    parked,      \* invocation -> the context of each invocation that is not running
    writes,      \* the writes that reached the file system, in order
    customApiRegistry,  \* api-registry.ts: api -> [streamSimple, sourceId]
    apiCalls,    \* the registry calls made so far, each with the registry it found
    source,      \* snowflake.ts: one Source, [epoch, seq]
    minted       \* the next() calls made on the source so far

\* What one invocation of execute owns: its arguments and its locals.
invocationVars == <<request, pc, loc, outcome, io, matchCalls, applied, before, run>>
threadVars == <<self, parked>>
registryVars == <<customApiRegistry, apiCalls>>
snowflakeVars == <<source, minted>>
\* What no step of a lone edit invocation touches.
elsewhere == <<threadVars, registryVars, snowflakeVars>>

vars == <<files, allowFuzzy, invocationVars, writes, elsewhere>>

\* api-registry.ts line 25: new Map().  The map is a function on the api
\* identifiers; a key that is not set has NoEntry.
Apis == {"api1", "api2"}
Undefined == "undefined"
NoEntry == [registered |-> FALSE, streamSimple |-> Undefined, sourceId |-> Undefined]
EmptyRegistry == [api \in Apis |-> NoEntry]

\* One invocation, nothing parked, no registry or identifier activity.
NothingElse ==
    /\ self = 1
    /\ parked = <<>>
    /\ writes = <<>>
    /\ customApiRegistry = EmptyRegistry
    /\ apiCalls = <<>>
    /\ source = [epoch |-> <<>>, seq |-> 0]
    /\ minted = <<>>

Init ==
    /\ request \in [path : Paths, oldText : OldTexts, newText : NewTexts, all : BOOLEAN]
    /\ allowFuzzy \in BOOLEAN
    /\ \E f \in (IF IsNotebook(request.path)
                 THEN {NoFile, [exists |-> TRUE, content |-> <<"a">>]}
                 ELSE {NoFile} \cup [exists : {TRUE}, content : RawContents]) :
           files = [p \in Paths |-> IF p = request.path THEN f ELSE NoFile]
    /\ pc = "format"
    /\ loc = NoLocals
    /\ outcome = NoOutcome
    /\ io = <<>>
    /\ matchCalls = 0
    /\ applied = <<>>
    /\ before = files
    /\ run = 1
    /\ NothingElse

\* Splice skipping as many characters as the replacement has, not the match.
SpliceByNewLength(content, match, newText) ==
    Sub(content, 0, match.startIndex)
        \o newText
        \o SubFrom(content, match.startIndex + Len(newText))

\* The splice of lines 115-118 and 144-147.
Splice(content, match, newText) ==
    Sub(content, 0, match.startIndex)
        \o newText
        \o SubFrom(content, match.startIndex + Len(match.actualText))

\* Lines 55-58: notebooks are rejected before any I/O.
CheckFormat ==
    /\ pc = "format"
    /\ IF IsNotebook(request.path)
       THEN /\ outcome' = Failure("UnsupportedFormat")
            /\ pc' = "done"
       ELSE /\ pc' = "exists"
            /\ UNCHANGED outcome
    /\ UNCHANGED <<files, request, allowFuzzy, loc, io, matchCalls, applied, before, run>>
    /\ UNCHANGED <<writes, elsewhere>>

\* Lines 62-65: the file must exist.
CheckExists ==
    /\ pc = "exists"
    /\ io' = Append(io, "exists")
    /\ IF ~files[request.path].exists
       THEN /\ outcome' = Failure("NotFound")
            /\ pc' = "done"
       ELSE /\ pc' = "read"
            /\ UNCHANGED outcome
    /\ UNCHANGED <<files, request, allowFuzzy, loc, matchCalls, applied, before, run>>
    /\ UNCHANGED <<writes, elsewhere>>

\* Lines 67-78: read, strip the marker, detect the line endings, normalize.
ReadAndNormalize ==
    /\ pc = "read"
    /\ io' = Append(io, "read")
    /\ LET rawContent == files[request.path].content
           stripped == stripBom(rawContent)
           normalizedContent == normalizeToLF(stripped.text)
       IN loc' = [NoLocals EXCEPT
                    !.rawContent = rawContent,
                    !.bom = stripped.bom,
                    !.originalEnding = detectLineEnding(stripped.text),
                    !.normalizedContent = normalizedContent,
                    !.normalizedOldText = normalizeToLF(request.oldText),
                    !.normalizedNewText = normalizeToLF(request.newText),
                    !.normalizedNewContent = IF request.all THEN normalizedContent ELSE <<>>,
                    !.replacementCount = 0]
    /\ pc' = IF request.all THEN "all" ELSE "single"
    /\ UNCHANGED <<files, request, allowFuzzy, outcome, matchCalls, applied, before, run>>
    /\ UNCHANGED <<writes, elsewhere>>

\* Line 85: the number of exact occurrences, as split counts them.
ExactCount(content, oldText) == Len(Split(content, oldText)) - 1

\* ReplaceAllExact replacing only the first occurrence, as String.replace does.
ReplaceFirstOnly(content, oldText, newText) ==
    LET i == IndexOf(content, oldText, 0)
    IN IF i = -1 THEN content
       ELSE Sub(content, 0, i) \o newText \o SubFrom(content, i + Len(oldText))

\* Line 87: the exact global replace.
ReplaceAllExact(content, oldText, newText) == Join(Split(content, oldText), newText)

\* Lines 80-90: all mode, the exact branch or the entry of the approximate loop.
AllExact ==
    /\ pc = "all"
    /\ LET exactCount == ExactCount(loc.normalizedContent, loc.normalizedOldText)
       IN IF exactCount > 0
          THEN /\ loc' = [loc EXCEPT
                            !.normalizedNewContent =
                                ReplaceAllExact(loc.normalizedContent, loc.normalizedOldText,
                                                loc.normalizedNewText),
                            !.replacementCount = exactCount]
               /\ pc' = "verify"
          ELSE /\ pc' = "fuzzy"
               /\ UNCHANGED loc
    /\ UNCHANGED <<files, request, allowFuzzy, outcome, io, matchCalls, applied, before, run>>
    /\ UNCHANGED <<writes, elsewhere>>

\* AllModeMatch falling back to the closest candidate whatever its score.
AllModeMatchAnyScore(matchOutcome) ==
    IF matchOutcome.match.kind # "none" THEN matchOutcome.match
    ELSE IF allowFuzzy /\ matchOutcome.closest.kind # "none"
         THEN matchOutcome.closest
         ELSE NoCandidate

\* Lines 98-102: the match an all-mode pass uses.
AllModeMatch(matchOutcome) ==
    IF matchOutcome.match.kind # "none" THEN matchOutcome.match
    ELSE IF allowFuzzy /\ matchOutcome.closest.kind # "none"
            /\ matchOutcome.closest.confidence >= DEFAULT_FUZZY_THRESHOLD
         THEN matchOutcome.closest
         ELSE NoCandidate

\* Lines 91-120: one pass of the all-mode approximate loop.
FuzzyPass ==
    /\ pc = "fuzzy"
    /\ loc.replacementCount < MaxIter
    /\ matchCalls' = matchCalls + 1
    /\ LET matchOutcome == findEditMatch(loc.normalizedNewContent, loc.normalizedOldText,
                                         allowFuzzy, DEFAULT_FUZZY_THRESHOLD)
           match == AllModeMatch(matchOutcome)
       IN IF match.kind = "none"
          THEN /\ IF loc.replacementCount = 0
                  THEN /\ outcome' = EditMatchError(matchOutcome.closest, DEFAULT_FUZZY_THRESHOLD)
                       /\ pc' = "done"
                  ELSE /\ pc' = "verify"
                       /\ UNCHANGED outcome
               /\ UNCHANGED <<loc, applied>>
          ELSE /\ loc' = [loc EXCEPT
                            !.normalizedNewContent =
                                Splice(loc.normalizedNewContent, match, loc.normalizedNewText),
                            !.replacementCount = loc.replacementCount + 1,
                            !.match = match]
               /\ applied' = Append(applied, [content |-> loc.normalizedNewContent, match |-> match])
               /\ pc' = "fuzzy"
               /\ UNCHANGED outcome
    /\ UNCHANGED <<files, request, allowFuzzy, io, before, run>>
    /\ UNCHANGED <<writes, elsewhere>>

\* IsAmbiguous off by one.
IsAmbiguousAboveTwo(matchOutcome) == matchOutcome.occurrences > 2

\* Line 129: more than one exact occurrence.
IsAmbiguous(matchOutcome) == matchOutcome.occurrences > 1

\* MatchMissing with the check dropped.
MatchMissingIgnored(matchOutcome) == FALSE

\* Line 135: no match was chosen.
MatchMissing(matchOutcome) == matchOutcome.match.kind = "none"

\* Lines 122-149: single mode.
SingleMatch ==
    /\ pc = "single"
    /\ matchCalls' = matchCalls + 1
    /\ LET matchOutcome == findEditMatch(loc.normalizedContent, loc.normalizedOldText,
                                         allowFuzzy, DEFAULT_FUZZY_THRESHOLD)
       IN IF IsAmbiguous(matchOutcome)
          THEN /\ outcome' = [Failure("AmbiguousMatch") EXCEPT
                                !.occurrences = matchOutcome.occurrences]
               /\ pc' = "done"
               /\ UNCHANGED <<loc, applied>>
          ELSE IF MatchMissing(matchOutcome)
          THEN /\ outcome' = EditMatchError(matchOutcome.closest, DEFAULT_FUZZY_THRESHOLD)
               /\ pc' = "done"
               /\ UNCHANGED <<loc, applied>>
          ELSE /\ loc' = [loc EXCEPT
                            !.normalizedNewContent =
                                Splice(loc.normalizedContent, matchOutcome.match,
                                       loc.normalizedNewText),
                            !.replacementCount = 1,
                            !.match = matchOutcome.match]
               /\ applied' = Append(applied, [content |-> loc.normalizedContent,
                                              match |-> matchOutcome.match])
               /\ pc' = "verify"
               /\ UNCHANGED outcome
    /\ UNCHANGED <<files, request, allowFuzzy, io, before, run>>
    /\ UNCHANGED <<writes, elsewhere>>

\* FinalContent without the marker.
FinalContentWithoutBom(bom, normalizedNewContent, originalEnding) ==
    restoreLineEndings(normalizedNewContent, originalEnding)

\* Line 158: the bytes handed to the write collaborator.
FinalContent(bom, normalizedNewContent, originalEnding) ==
    bom \o restoreLineEndings(normalizedNewContent, originalEnding)

\* ProducedIdenticalContent with the check dropped.
NeverIdenticalContent(normalizedContent, normalizedNewContent) == FALSE

\* ProducedIdenticalContent comparing against the raw content as read.
IdenticalToRawContent(normalizedContent, normalizedNewContent) ==
    loc.rawContent = normalizedNewContent

\* Line 152: the replacement produced identical content.
ProducedIdenticalContent(normalizedContent, normalizedNewContent) ==
    normalizedContent = normalizedNewContent

\* Lines 151-158: an edit that changes nothing is an error.
VerifyChanged ==
    /\ pc = "verify"
    /\ IF ProducedIdenticalContent(loc.normalizedContent, loc.normalizedNewContent)
       THEN /\ outcome' = Failure("NoEffectiveChange")
            /\ pc' = "done"
            /\ UNCHANGED loc
       ELSE /\ loc' = [loc EXCEPT
                         !.finalContent =
                             FinalContent(loc.bom, loc.normalizedNewContent, loc.originalEnding)]
            /\ pc' = "write"
            /\ UNCHANGED outcome
    /\ UNCHANGED <<files, request, allowFuzzy, io, matchCalls, applied, before, run>>
    /\ UNCHANGED <<writes, elsewhere>>

\* Lines 161-187: the result payload.
Result(diagnostics) ==
    [NoOutcome EXCEPT
        !.kind = "success",
        !.replacementCount = loc.replacementCount,
        !.firstChangedLine = firstChangedLine(loc.normalizedContent, loc.normalizedNewContent),
        !.diagnostics = diagnostics]

\* Line 159: what a write that reaches the file system puts there, and for
\* which invocation.
Landed == [id |-> self, path |-> request.path, content |-> loc.finalContent]

\* Lines 159-187: the write collaborator persists the final content and may
\* return diagnostics; then the result is assembled.
Writethrough ==
    /\ pc = "write"
    /\ io' = Append(io, "write")
    /\ files' = [files EXCEPT ![request.path] = [exists |-> TRUE, content |-> loc.finalContent]]
    /\ writes' = Append(writes, Landed)
    /\ \E diagnostics \in BOOLEAN : outcome' = Result(diagnostics)
    /\ pc' = "done"
    /\ UNCHANGED <<request, allowFuzzy, loc, matchCalls, applied, before, run>>
    /\ UNCHANGED elsewhere

\* Line 159: the write collaborator fails or is cancelled; the error is
\* propagated, and the write may or may not have reached the file.
WritethroughFails ==
    /\ pc = "write"
    /\ io' = Append(io, "write")
    /\ \E written \in BOOLEAN :
          /\ files' = IF written
                      THEN [files EXCEPT ![request.path] =
                                            [exists |-> TRUE, content |-> loc.finalContent]]
                      ELSE files
          /\ writes' = IF written THEN Append(writes, Landed) ELSE writes
    /\ outcome' = Failure("CollaboratorFailure")
    /\ pc' = "done"
    /\ UNCHANGED <<request, allowFuzzy, loc, matchCalls, applied, before, run>>
    /\ UNCHANGED elsewhere

\* The caller issues the same request again after a successful run.
Rerun ==
    /\ pc = "done"
    /\ outcome.kind = "success"
    /\ run < MaxRuns
    /\ run' = run + 1
    /\ pc' = "format"
    /\ loc' = NoLocals
    /\ outcome' = NoOutcome
    /\ io' = <<>>
    /\ matchCalls' = 0
    /\ applied' = <<>>
    /\ before' = files
    /\ UNCHANGED <<files, request, allowFuzzy>>
    /\ UNCHANGED <<writes, elsewhere>>

Next ==
    \/ CheckFormat
    \/ CheckExists
    \/ ReadAndNormalize
    \/ AllExact
    \/ FuzzyPass
    \/ SingleMatch
    \/ VerifyChanged
    \/ Writethrough
    \/ WritethroughFails
    \/ Rerun

Spec == Init /\ [][Next]_vars

\* ------------------------------------------ the normalizer's round trip alone

\* Raw contents with any mix of the two terminators, and markers anywhere.
RawUnits == {<<"a">>, <<LF>>, <<CR, LF>>, <<BOM>>}

RECURSIVE Flatten(_)
Flatten(units) == IF Len(units) = 0 THEN <<>> ELSE units[1] \o Flatten(Tail(units))

RawContentsAnyMix == {Flatten(u) : u \in SeqsOf(RawUnits, 0, MaxRaw)}

InitNormalize ==
    /\ request \in [path : {<<"f", ".txt">>}, oldText : {<<"a">>}, newText : {<<>>},
                    all : BOOLEAN]
    /\ allowFuzzy = TRUE
    /\ \E raw \in RawContentsAnyMix :
           files = [p \in Paths |-> IF p = request.path
                                    THEN [exists |-> TRUE, content |-> raw]
                                    ELSE NoFile]
    /\ pc = "read"
    /\ loc = NoLocals
    /\ outcome = NoOutcome
    /\ io = <<"exists">>
    /\ matchCalls = 0
    /\ applied = <<>>
    /\ before = files
    /\ run = 1
    /\ NothingElse

\* Line 158 applied to the canonical content as read (lines 70-73), no edit
\* in between.
RestoreUnedited ==
    /\ pc \in {"all", "single"}
    /\ loc' = [loc EXCEPT
                  !.finalContent =
                      FinalContent(loc.bom, loc.normalizedContent, loc.originalEnding)]
    /\ pc' = "restored"
    /\ UNCHANGED <<files, request, allowFuzzy, outcome, io, matchCalls, applied, before, run>>
    /\ UNCHANGED <<writes, elsewhere>>

NextNormalize == ReadAndNormalize \/ RestoreUnedited

SpecNormalize == InitNormalize /\ [][NextNormalize]_vars

\* ------------------------------------------- invocations sharing a thread

\* execute is an async function: a call runs on the one JavaScript thread
\* until it awaits (lines 63, 67 and 159) or is over, and only then does the
\* thread run another call.  Each call has its own arguments and locals; the
\* calls share the file system and the tool's options.
Invocations == {1, 2}

ConcurrentPaths == {<<"f", ".txt">>, <<"g", ".txt">>}
ConcurrentFiles ==
    {NoFile} \cup [exists : {TRUE}, content : {<<"a">>, <<SP>>, <<"a", LF>>}]
ConcurrentRequests ==
    [path : ConcurrentPaths, oldText : {<<"a">>, <<LF>>}, newText : {<<>>, <<SP>>},
     all : BOOLEAN]

\* The arguments and locals of the call that is running (lines 42-54, 60-78).
Context ==
    [request |-> request, pc |-> pc, loc |-> loc, outcome |-> outcome, io |-> io,
     matchCalls |-> matchCalls, applied |-> applied, before |-> before, run |-> run]

\* A call that has not begun.
NewContext(req, fileSystem) ==
    [request |-> req, pc |-> "format", loc |-> NoLocals, outcome |-> NoOutcome, io |-> <<>>,
     matchCalls |-> 0, applied |-> <<>>, before |-> fileSystem, run |-> 1]

\* LocalsOf with the locals held once for all calls instead of per call.
LocalsOfThread(context) == loc

\* Lines 67-78, 152-158: rawContent, bom, ..., finalContent are declared
\* inside execute, so each call resumes with its own.
LocalsOf(context) == context.loc

\* The running call has not begun, awaits a collaborator, or is over.
Yields == pc \in {"format", "exists", "read", "write", "done"}

\* The thread leaves the running call and takes up call j.
Switch(j) ==
    /\ Yields
    /\ j \in DOMAIN parked
    /\ parked[j].pc # "done"
    /\ self' = j
    /\ parked' = [i \in (DOMAIN parked \ {j}) \cup {self} |->
                     IF i = self THEN Context ELSE parked[i]]
    /\ request' = parked[j].request
    /\ pc' = parked[j].pc
    /\ loc' = LocalsOf(parked[j])
    /\ outcome' = parked[j].outcome
    /\ io' = parked[j].io
    /\ matchCalls' = parked[j].matchCalls
    /\ applied' = parked[j].applied
    /\ before' = parked[j].before
    /\ run' = parked[j].run
    /\ UNCHANGED <<files, allowFuzzy, writes, registryVars, snowflakeVars>>

InitConcurrent ==
    /\ allowFuzzy = TRUE
    /\ files \in [ConcurrentPaths -> ConcurrentFiles]
    /\ request \in {r \in ConcurrentRequests : r.path = <<"f", ".txt">>}
    /\ pc = "format"
    /\ loc = NoLocals
    /\ outcome = NoOutcome
    /\ io = <<>>
    /\ matchCalls = 0
    /\ applied = <<>>
    /\ before = files
    /\ run = 1
    /\ self = 1
    /\ \E r \in ConcurrentRequests : parked = [i \in {2} |-> NewContext(r, files)]
    /\ writes = <<>>
    /\ customApiRegistry = EmptyRegistry
    /\ apiCalls = <<>>
    /\ source = [epoch |-> <<>>, seq |-> 0]
    /\ minted = <<>>

NextConcurrent ==
    \/ CheckFormat
    \/ CheckExists
    \/ ReadAndNormalize
    \/ AllExact
    \/ FuzzyPass
    \/ SingleMatch
    \/ VerifyChanged
    \/ Writethrough
    \/ WritethroughFails
    \/ \E j \in Invocations : Switch(j)

SpecConcurrent == InitConcurrent /\ [][NextConcurrent]_vars

\* ------------------------------------------------- snowflake identifiers
\* packages/utils/src/snowflake.ts.  A bigint >= 0 is the sequence of its bits,
\* least significant first, with no zero bit kept above the highest one bit:
\* 0n is <<>>.  Timestamps are integral Numbers below 2^53 and are held the
\* same way; the #seq field and getSequence's result are plain integers.

RECURSIVE TrimBits(_)
TrimBits(bits) ==
    IF Len(bits) > 0 /\ bits[Len(bits)] = 0
    THEN TrimBits(SubSeq(bits, 1, Len(bits) - 1))
    ELSE bits

Bit(a, i) == IF i >= 1 /\ i <= Len(a) THEN a[i] ELSE 0

\* BigInt(n) for a Number n >= 0.
RECURSIVE BigInt(_)
BigInt(n) == IF n = 0 THEN <<>> ELSE <<n % 2>> \o BigInt(n \div 2)

\* Number(a) for a bigint that fits the model's integers.
RECURSIVE Number(_)
Number(a) == IF Len(a) = 0 THEN 0 ELSE a[1] + 2 * Number(Tail(a))

\* a | b
BigOr(a, b) ==
    TrimBits([i \in 1..Max(Len(a), Len(b)) |-> IF Bit(a, i) = 1 \/ Bit(b, i) = 1 THEN 1 ELSE 0])

\* a & b
BigAnd(a, b) ==
    TrimBits([i \in 1..Min(Len(a), Len(b)) |-> IF a[i] = 1 /\ b[i] = 1 THEN 1 ELSE 0])

\* a << k
ShiftLeft(a, k) == IF Len(a) = 0 THEN <<>> ELSE [i \in 1..k |-> 0] \o a

\* a >> k
ShiftRight(a, k) == SubSeq(a, k + 1, Len(a))

\* a + b
BigAdd(a, b) ==
    LET n == Max(Len(a), Len(b)) + 1
        carry[i \in 0..n] ==
            IF i = 0 THEN 0 ELSE (Bit(a, i) + Bit(b, i) + carry[i - 1]) \div 2
    IN TrimBits([i \in 1..n |-> (Bit(a, i) + Bit(b, i) + carry[i - 1]) % 2])

\* a < b
BigLess(a, b) ==
    \E i \in 1..Len(b) :
        /\ b[i] = 1
        /\ Bit(a, i) = 0
        /\ \A j \in (i + 1)..Max(Len(a), Len(b)) : Bit(a, j) = Bit(b, j)

\* a - b for a >= b
BigSub(a, b) ==
    LET n == Len(a)
        borrow[i \in 0..n] ==
            IF i = 0 THEN 0
            ELSE IF Bit(a, i) - Bit(b, i) - borrow[i - 1] < 0 THEN 1 ELSE 0
    IN TrimBits([i \in 1..n |-> (Bit(a, i) - Bit(b, i) - borrow[i - 1]) % 2])

HexDigits ==
    <<"0", "1", "2", "3", "4", "5", "6", "7", "8", "9", "a", "b", "c", "d", "e", "f">>

HexValue(c) == CHOOSE v \in 0..15 : HexDigits[v + 1] = c

\* bigint.toString(16)
ToString16(a) ==
    LET digits == Max(1, (Len(a) + 3) \div 4)
        nibble(j) == Bit(a, 4 * j + 1) + 2 * Bit(a, 4 * j + 2)
                        + 4 * Bit(a, 4 * j + 3) + 8 * Bit(a, 4 * j + 4)
    IN [k \in 1..digits |-> HexDigits[nibble(digits - k) + 1]]

\* String.prototype.padStart(width, "0")
PadStart(s, width) ==
    IF Len(s) >= width THEN s ELSE [i \in 1..(width - Len(s)) |-> "0"] \o s

\* BigInt(Number.parseInt(s, 16)) for a non-empty string of hex digits.
ParseHex(s) ==
    LET n == Len(s)
        bitOf(i) == (HexValue(s[n - ((i - 1) \div 4)]) \div (2 ^ ((i - 1) % 4))) % 2
    IN TrimBits([i \in 1..(4 * n) |-> bitOf(i)])

\* 0x3fffff: the sequence mask (lines 70, 73, 83) and upperbound's low bits.
SequenceMask == 4194303
\* << 22n and >> 22n (lines 85, 109, 120, 142).
SequenceBits == 22
\* 0xfffn: the mask getSequence applies (line 131).
GetSequenceMask == 4095
\* padStart(16, "0") and PATTERN's {16}.
HexWidth == 16
\* 1420070400000n
DEFAULT_EPOCH == ParseHex(<<"1", "4", "a", "a", "2", "c", "a", "b", "0", "0", "0">>)

\* v & mask on Numbers, for a mask 2^k - 1 below 2^31: the low k bits of v in
\* two's complement.
MaskNumber(v, mask) == v % (mask + 1)

\* Lines 28-30.
toHex(value) == PadStart(ToString16(value), HexWidth)

\* Lines 34-39: the first eight and the next eight characters, each parsed as
\* hexadecimal.
toBigInt(value) ==
    BigOr(ShiftLeft(ParseHex(Sub(value, 0, 8)), 32), ParseHex(Sub(value, 8, 16)))

\* Lines 24, 98-100: PATTERN.test(value).
valid(value) ==
    /\ Len(value) = HexWidth
    /\ \A i \in 1..Len(value) : \E v \in 0..15 : value[i] = HexDigits[v + 1]

\* Lines 47-55: new Source({epoch, sequence}).
NewSource(epoch, sequence) == [epoch |-> epoch, seq |-> MaskNumber(sequence, SequenceMask)]

\* Lines 69-71: get sequence().
sequence(src) == MaskNumber(src.seq, SequenceMask)

\* Lines 72-75.
setSequence(src, v) == [src EXCEPT !.seq = MaskNumber(v, SequenceMask)]

\* Lines 76-78.
reset(src) == setSequence(src, 0)

\* Lines 82-87: the source after the call and the identifier returned.
next(src, timestamp) ==
    LET seq == MaskNumber(src.seq + 1, SequenceMask)
        value == BigOr(BigInt(seq), ShiftLeft(BigSub(timestamp, src.epoch), SequenceBits))
    IN [source |-> [src EXCEPT !.seq = seq], id |-> toHex(value)]

\* Lines 104-114, a Number timestamp.
lowerbound(timelike, src) ==
    toHex(BigOr(BigInt(0), ShiftLeft(BigSub(timelike, src.epoch), SequenceBits)))

\* Lines 115-125, a Number timestamp.
upperbound(timelike, src) ==
    toHex(BigOr(BigInt(SequenceMask), ShiftLeft(BigSub(timelike, src.epoch), SequenceBits)))

\* Lines 129-133.
getSequence(value) == Number(BigAnd(toBigInt(value), BigInt(GetSequenceMask)))

\* Lines 140-144.
getTimestamp(value, epoch) == BigAdd(ShiftRight(toBigInt(value), SequenceBits), epoch)

\* The epochs a Source is built with: 0 and the default.
Epochs == {BigInt(0), DEFAULT_EPOCH}

\* Milliseconds since the epoch: 0, 1, 2^42 - 1 and 2^42.
Offsets ==
    {BigInt(0), BigInt(1), [i \in 1..42 |-> 1], ShiftLeft(BigInt(1), 42)}

\* The timestamps t >= epoch handed to next, lowerbound and upperbound.
Timestamps(epoch) == {BigAdd(epoch, offset) : offset \in Offsets}

\* The Numbers handed to the constructor (randint() by default) and to
\* setSequence.
SequenceInputs == {0, 1, 4094, 4095, 4096, 4194302, 4194303, 4194304, -1}

\* No edit invocation is in flight.
NoEdit ==
    /\ files = [p \in Paths |-> NoFile]
    /\ request = [path |-> <<"f", ".txt">>, oldText |-> <<"a">>, newText |-> <<>>,
                  all |-> FALSE]
    /\ allowFuzzy = TRUE
    /\ pc = "done"
    /\ loc = NoLocals
    /\ outcome = NoOutcome
    /\ io = <<>>
    /\ matchCalls = 0
    /\ applied = <<>>
    /\ before = files
    /\ run = 1
    /\ self = 1
    /\ parked = <<>>
    /\ writes = <<>>

editVars == <<files, allowFuzzy, invocationVars, writes, threadVars>>

InitSnowflake ==
    /\ NoEdit
    /\ customApiRegistry = EmptyRegistry
    /\ apiCalls = <<>>
    /\ \E epoch \in Epochs, v \in SequenceInputs : source = NewSource(epoch, v)
    /\ minted = <<>>

\* source.next(timestamp)
CallNext ==
    /\ Len(minted) < MaxMinted
    /\ \E timestamp \in Timestamps(source.epoch) :
          LET call == next(source, timestamp)
          IN /\ source' = call.source
             /\ minted' = Append(minted, [timestamp |-> timestamp, id |-> call.id,
                                          sequence |-> sequence(call.source)])
    /\ UNCHANGED <<editVars, registryVars>>

\* source.setSequence(v); the calls recorded are those since the sequence
\* was last set.
CallSetSequence ==
    /\ \E v \in SequenceInputs : source' = setSequence(source, v)
    /\ minted' = <<>>
    /\ UNCHANGED <<editVars, registryVars>>

\* source.reset()
CallReset ==
    /\ source' = reset(source)
    /\ minted' = <<>>
    /\ UNCHANGED <<editVars, registryVars>>

NextSnowflake == CallNext \/ CallSetSequence \/ CallReset

SpecSnowflake == InitSnowflake /\ [][NextSnowflake]_vars

\* --------------------------------------------------- custom-api registry
\* packages/ai/src/api-registry.ts.

Handlers == {"h1", "h2"}
SourceIds == {"A", "B"}

\* Lines 20-23: a RegisteredCustomApi, {streamSimple, sourceId?}.
Entry(streamSimple, sourceId) ==
    [registered |-> TRUE, streamSimple |-> streamSimple, sourceId |-> sourceId]

\* registerCustomApi keeping an earlier registration of the same api.
registerUnlessRegistered(registry, api, streamSimple, sourceId) ==
    IF registry[api].registered THEN registry
    ELSE [registry EXCEPT ![api] = Entry(streamSimple, sourceId)]

\* Lines 31-33: customApiRegistry.set(api, {streamSimple, sourceId}).
registerCustomApi(registry, api, streamSimple, sourceId) ==
    [registry EXCEPT ![api] = Entry(streamSimple, sourceId)]

\* Lines 39-41: customApiRegistry.get(api)?.streamSimple.
getCustomApi(registry, api) ==
    IF registry[api].registered THEN registry[api].streamSimple ELSE Undefined

\* unregisterCustomApis deleting every entry that has a sourceId.
unregisterEverySource(registry, sourceId) ==
    [api \in Apis |->
        IF registry[api].registered /\ registry[api].sourceId # Undefined
        THEN NoEntry
        ELSE registry[api]]

\* Lines 46-52: delete every entry whose sourceId is the given one.
unregisterCustomApis(registry, sourceId) ==
    [api \in Apis |->
        IF registry[api].registered /\ registry[api].sourceId = sourceId
        THEN NoEntry
        ELSE registry[api]]

\* Lines 57-59: customApiRegistry.clear().
clearCustomApis(registry) == [api \in Apis |-> NoEntry]

\* A call as recorded: what was called with what, and the registry it found.
ApiCall(op, api, streamSimple, sourceId) ==
    [op |-> op, api |-> api, streamSimple |-> streamSimple, sourceId |-> sourceId,
     found |-> customApiRegistry]

InitRegistry ==
    /\ NoEdit
    /\ customApiRegistry = EmptyRegistry
    /\ apiCalls = <<>>
    /\ source = [epoch |-> <<>>, seq |-> 0]
    /\ minted = <<>>

\* registerCustomApi(api, streamSimple, sourceId?)
CallRegister ==
    /\ Len(apiCalls) < MaxApiCalls
    /\ \E api \in Apis, streamSimple \in Handlers, sourceId \in SourceIds \cup {Undefined} :
          /\ customApiRegistry' =
                 registerCustomApi(customApiRegistry, api, streamSimple, sourceId)
          /\ apiCalls' = Append(apiCalls, ApiCall("register", api, streamSimple, sourceId))
    /\ UNCHANGED <<editVars, snowflakeVars>>

\* unregisterCustomApis(sourceId)
CallUnregister ==
    /\ Len(apiCalls) < MaxApiCalls
    /\ \E sourceId \in SourceIds :
          /\ customApiRegistry' = unregisterCustomApis(customApiRegistry, sourceId)
          /\ apiCalls' = Append(apiCalls, ApiCall("unregister", Undefined, Undefined, sourceId))
    /\ UNCHANGED <<editVars, snowflakeVars>>

\* clearCustomApis()
CallClear ==
    /\ Len(apiCalls) < MaxApiCalls
    /\ customApiRegistry' = clearCustomApis(customApiRegistry)
    /\ apiCalls' = Append(apiCalls, ApiCall("clear", Undefined, Undefined, Undefined))
    /\ UNCHANGED <<editVars, snowflakeVars>>

NextRegistry == CallRegister \/ CallUnregister \/ CallClear

SpecRegistry == InitRegistry /\ [][NextRegistry]_vars

\* ------------------------------------------------------------------ claims

Called(op) == \E i \in 1..Len(io) : io[i] = op

\* The canonical texts of this invocation are known once the file was read.
HasRead == Called("read")

ErrorKinds ==
    {"UnsupportedFormat", "NotFound", "AmbiguousMatch", "NoMatch", "NoEffectiveChange"}

\* C1: in all mode with no exact occurrence, the approximate loop ends after a
\* number of passes bounded by the document's size: it never makes more
\* replacements than the canonical content has characters, plus one.
C1_LoopBoundedByDocumentSize ==
    (request.all /\ HasRead /\ pc = "fuzzy")
        => loc.replacementCount <= Len(loc.normalizedContent) + 1

\* C2: in single mode more than one exact occurrence of oldText fails with
\* AmbiguousMatch stating the count, replaces nothing and writes nothing, and
\* a single-mode success rests on exactly one chosen match: the only exact
\* occurrence, or a qualifying approximate span when there is no exact one.
C2_SingleModeAmbiguity ==
    (~request.all /\ HasRead /\ pc # "single")
        => LET n == ExactCount(loc.normalizedContent, loc.normalizedOldText)
           IN /\ n > 1 => /\ pc = "done"
                          /\ outcome.kind = "AmbiguousMatch"
                          /\ outcome.occurrences = n
                          /\ applied = <<>>
                          /\ loc.replacementCount = 0
                          /\ ~Called("write")
                          /\ files = before
              /\ outcome.kind = "success"
                    => /\ Len(applied) = 1
                       /\ outcome.replacementCount = 1
                       /\ LET m == applied[1].match
                          IN /\ OccursAt(loc.normalizedContent, m.actualText, m.startIndex)
                             /\ \/ n = 1 /\ m.kind = "exact"
                                         /\ m.actualText = loc.normalizedOldText
                                \/ n = 0 /\ m.kind = "approximate"
                                         /\ m.confidence >= DEFAULT_FUZZY_THRESHOLD

C2_Witness ==
    /\ ~request.all
    /\ run = 1
    /\ outcome.kind = "AmbiguousMatch"
    /\ outcome.occurrences = 2

\* C3: the write collaborator is called at most once per invocation and only
\* after the format, existence, match and no-effective-change checks passed;
\* an invocation that ends with one of the five check errors leaves the file
\* as it was and returns no payload.
C3_WriteOnceAfterChecks ==
    /\ Cardinality({i \in 1..Len(io) : io[i] = "write"}) <= 1
    /\ Called("write")
          => /\ io = <<"exists", "read", "write">>
             /\ ~EndsWith(request.path, ".ipynb")
             /\ before[request.path].exists
             /\ loc.replacementCount >= 1
             /\ loc.normalizedNewContent # loc.normalizedContent
             /\ outcome.kind \in {"success", "CollaboratorFailure"}
    /\ pc \in {"format", "exists", "read", "all", "fuzzy", "single", "verify", "write"}
          => /\ ~Called("write")
             /\ files = before
             /\ outcome = NoOutcome
    /\ outcome.kind \in ErrorKinds
          => /\ pc = "done"
             /\ ~Called("write")
             /\ files = before
             /\ outcome.replacementCount = 0
             /\ outcome.firstChangedLine = 0
             /\ ~outcome.diagnostics

C3_Witness ==
    /\ outcome.kind = "success"
    /\ io = <<"exists", "read", "write">>
    /\ files # before

RECURSIVE ReplaceAtOffsets(_, _, _, _, _)
ReplaceAtOffsets(content, offsets, span, newText, from) ==
    IF Len(offsets) = 0 THEN SubFrom(content, from)
    ELSE Sub(content, from, offsets[1]) \o newText
         \o ReplaceAtOffsets(content, Tail(offsets), span, newText, offsets[1] + span)

\* C5: in all mode, when oldText occurs exactly k >= 1 times (non-overlapping,
\* left to right), the new canonical content is the original with each of
\* those occurrences replaced by newText and the rest unchanged, the
\* replacement count is k, and the approximate matcher is not consulted.
C5_ReplaceAllExact ==
    (request.all /\ HasRead /\ pc # "all")
        => LET occ == ExactOccurrences(loc.normalizedContent, loc.normalizedOldText)
           IN Len(occ) >= 1
                 => /\ loc.normalizedNewContent =
                           ReplaceAtOffsets(loc.normalizedContent, occ,
                                            Len(loc.normalizedOldText),
                                            loc.normalizedNewText, 0)
                    /\ loc.replacementCount = Len(occ)
                    /\ matchCalls = 0
                    /\ applied = <<>>
                    /\ outcome.kind = "success" => outcome.replacementCount = Len(occ)

C5_Witness ==
    /\ request.all
    /\ outcome.kind = "success"
    /\ outcome.replacementCount = 2
    /\ matchCalls = 0
    /\ Len(loc.normalizedNewContent) > Len(loc.normalizedContent)

\* Whether some span of the content approximately matches the fragment at or
\* above the threshold.
HasQualifyingSpan(content, frag) ==
    \E c \in FuzzyCandidates(content, frag) : c.confidence >= DEFAULT_FUZZY_THRESHOLD

\* C6: in all mode with no exact occurrence, a first scan without a
\* qualifying match fails with NoMatch carrying the closest candidate and the
\* threshold, as single mode does; once a replacement was applied, the pass
\* that finds no further match ends the loop and the edit goes on as a
\* success whose replacement count is the number of replacing passes.
C6_ApproximateLoopOutcome ==
    (request.all /\ HasRead /\ pc # "all"
        /\ ExactCount(loc.normalizedContent, loc.normalizedOldText) = 0)
        => /\ (matchCalls >= 1
                /\ ~(allowFuzzy /\ HasQualifyingSpan(loc.normalizedContent, loc.normalizedOldText)))
                 => /\ pc = "done"
                    /\ outcome.kind = "NoMatch"
                    /\ outcome.threshold = DEFAULT_FUZZY_THRESHOLD
                    /\ outcome.closest =
                          (IF allowFuzzy
                           THEN BestCandidate(loc.normalizedContent, loc.normalizedOldText)
                           ELSE NoCandidate)
                    /\ matchCalls = 1
                    /\ applied = <<>>
                    /\ files = before
           /\ (pc \in {"verify", "write", "done"} /\ loc.replacementCount >= 1)
                 => /\ loc.replacementCount = Len(applied)
                    /\ matchCalls = Len(applied) + 1
                    /\ \A i \in 1..Len(applied) :
                          applied[i].match.confidence >= DEFAULT_FUZZY_THRESHOLD
                    /\ findEditMatch(loc.normalizedNewContent, loc.normalizedOldText,
                                     allowFuzzy, DEFAULT_FUZZY_THRESHOLD).match.kind = "none"
                    /\ outcome.kind \in {"none", "success", "CollaboratorFailure"}
                    /\ outcome.kind = "success"
                          => outcome.replacementCount = Len(applied)

C6_Witness ==
    /\ request.all
    /\ outcome.kind = "success"
    /\ outcome.replacementCount = 2
    /\ matchCalls = 3
    /\ Len(applied) = 2

\* C7: the preconditions are checked in order and the first failure decides:
\* a path ending in .ipynb is rejected with UnsupportedFormat before any
\* existence check, read or write, also when the file is missing; a missing
\* file is rejected with NotFound before any read, match or write.
C7_PreconditionOrder ==
    /\ EndsWith(request.path, ".ipynb")
          => /\ pc \in {"format", "done"}
             /\ pc = "done" => outcome.kind = "UnsupportedFormat"
             /\ io = <<>>
             /\ matchCalls = 0
             /\ files = before
    /\ (~EndsWith(request.path, ".ipynb") /\ ~before[request.path].exists)
          => /\ pc \in {"format", "exists", "done"}
             /\ pc = "done" => (outcome.kind = "NotFound" /\ io = <<"exists">>)
             /\ ~Called("read")
             /\ ~Called("write")
             /\ matchCalls = 0
             /\ files = before
    /\ outcome.kind = "UnsupportedFormat" => EndsWith(request.path, ".ipynb")
    /\ outcome.kind = "NotFound" => ~before[request.path].exists

C7_Witness ==
    /\ EndsWith(request.path, ".ipynb")
    /\ ~files[request.path].exists
    /\ pc = "done"
    /\ outcome.kind = "UnsupportedFormat"

\* C8 as stated: the same request run again on the output of its own
\* successful run fails with NoMatch unless the output holds an exact
\* occurrence of oldText; it never succeeds again and never fails otherwise.
C8_RerunFailsWithNoMatch ==
    (run >= 2 /\ pc = "done")
        => \/ outcome.kind = "NoMatch"
           \/ ExactCount(loc.normalizedContent, loc.normalizedOldText) >= 1

\* C8 as amended: the same request run again on the output of its own
\* successful run fails with NoMatch unless the output holds an exact
\* occurrence of oldText or, with approximate matching on, a span that still
\* approximately matches oldText at or above the threshold.
C8_RerunFailsUnlessStillMatching ==
    (run >= 2 /\ HasRead /\ pc \notin {"all", "single", "fuzzy"}
        /\ ExactCount(loc.normalizedContent, loc.normalizedOldText) = 0
        /\ ~(allowFuzzy /\ HasQualifyingSpan(loc.normalizedContent, loc.normalizedOldText)))
        => /\ pc = "done"
           /\ outcome.kind = "NoMatch"
           /\ ~Called("write")
           /\ files = before

C8_Witness ==
    /\ run = 2
    /\ allowFuzzy
    /\ pc = "done"
    /\ outcome.kind = "NoMatch"
    /\ before[request.path].content # <<>>

\* Whether the text mixes terminator conventions or holds a lone carriage return.
UniformEndings(text) ==
    /\ ~(CountCRLF(text) > 0 /\ CountLF(text) > 0)
    /\ \A i \in 1..Len(text) : text[i] = CR => (i < Len(text) /\ text[i + 1] = LF)

MarkerCount(text) == Cardinality({i \in 1..Len(text) : text[i] = BOM})

StartsWithMarker(text) == Len(text) > 0 /\ text[1] = BOM

\* The marker is re-prepended once when it was stripped and never otherwise.
MarkerKept ==
    /\ StartsWithMarker(loc.finalContent) <=> StartsWithMarker(loc.rawContent)
    /\ MarkerCount(loc.finalContent) = MarkerCount(loc.rawContent)

\* C9 as stated: for any raw content, restoring the normalized content
\* reproduces the raw content exactly, the marker once at the start when it
\* was present and never otherwise.
C9_RoundTripAnyContent ==
    pc = "restored" => (loc.finalContent = loc.rawContent /\ MarkerKept)

\* C9 as amended: for any raw content whose terminators follow one
\* convention (all linefeed or all carriage-return+linefeed, no lone carriage
\* return), restoring the normalized content reproduces the raw content
\* exactly; for every raw content the marker is at the start of the output
\* once when it was present and never otherwise.
C9_RoundTripUniformContent ==
    pc = "restored"
        => /\ UniformEndings(stripBom(loc.rawContent).text)
                 => loc.finalContent = loc.rawContent
           /\ MarkerKept

C9_Witness ==
    /\ pc = "restored"
    /\ loc.bom = <<BOM>>
    /\ loc.originalEnding = "CRLF"
    /\ Len(loc.normalizedContent) >= 2
    /\ loc.finalContent = loc.rawContent

\* C10: in single mode with the chosen match at offset s of length n, the new
\* canonical content is content[0..s) + newText + content[s+n..): the
\* characters before and after the matched span are unchanged, and the
\* replacement count is 1.
C10_SingleModeSplice ==
    (~request.all /\ Len(applied) = 1)
        => LET c == loc.normalizedContent
               r == loc.normalizedNewContent
               t == loc.normalizedNewText
               s == applied[1].match.startIndex
               n == Len(applied[1].match.actualText)
           IN /\ applied[1].content = c
              /\ OccursAt(c, applied[1].match.actualText, s)
              /\ Len(r) = Len(c) - n + Len(t)
              /\ \A i \in 1..s : r[i] = c[i]
              /\ \A i \in 1..Len(t) : r[s + i] = t[i]
              /\ \A i \in 1..(Len(c) - s - n) : r[s + Len(t) + i] = c[s + n + i]
              /\ loc.replacementCount = 1
              /\ outcome.kind = "success" => outcome.replacementCount = 1

C10_Witness ==
    /\ ~request.all
    /\ outcome.kind = "success"
    /\ applied[1].match.kind = "approximate"
    /\ applied[1].match.startIndex = 1
    /\ Len(applied[1].match.actualText) = 2
    /\ Len(loc.normalizedNewText) = 1

\* ------------------------------------------- claims on interleaved calls

ContextOf(i) == IF i = self THEN Context ELSE parked[i]

Finished(i) == ContextOf(i).pc = "done"

\* The approximate loop of lines 91-120 run to its end on its own: the content
\* and count it ends with, or finishes = FALSE for a loop followed MaxIter passes
\* without reaching a pass that finds no match.
RECURSIVE ApproximateLoop(_, _, _, _)
ApproximateLoop(content, oldText, newText, count) ==
    IF count >= MaxIter
    THEN [finishes |-> FALSE, content |-> content, count |-> count, closest |-> NoCandidate]
    ELSE LET matchOutcome == findEditMatch(content, oldText, allowFuzzy,
                                           DEFAULT_FUZZY_THRESHOLD)
             match == AllModeMatch(matchOutcome)
         IN IF match.kind = "none"
            THEN [finishes |-> TRUE, content |-> content, count |-> count,
                  closest |-> matchOutcome.closest]
            ELSE ApproximateLoop(Splice(content, match, newText), oldText, newText,
                                 count + 1)

\* What one call makes of a file when nothing else runs and the write
\* collaborator succeeds without diagnostics: whether it finishes, what it
\* throws or returns, and the file it leaves.
RunAlone(file, req) ==
    LET thrown(o) == [finishes |-> TRUE, outcome |-> o, file |-> file]
        stripped == stripBom(file.content)
        content == normalizeToLF(stripped.text)
        oldText == normalizeToLF(req.oldText)
        newText == normalizeToLF(req.newText)
        written(newContent, count) ==
            IF ProducedIdenticalContent(content, newContent)
            THEN thrown(Failure("NoEffectiveChange"))
            ELSE [finishes |-> TRUE,
                  outcome |-> [NoOutcome EXCEPT
                                  !.kind = "success",
                                  !.replacementCount = count,
                                  !.firstChangedLine = firstChangedLine(content, newContent)],
                  file |-> [exists |-> TRUE,
                            content |-> FinalContent(stripped.bom, newContent,
                                                     detectLineEnding(stripped.text))]]
    IN IF IsNotebook(req.path) THEN thrown(Failure("UnsupportedFormat"))
       ELSE IF ~file.exists THEN thrown(Failure("NotFound"))
       ELSE IF req.all
       THEN IF ExactCount(content, oldText) > 0
            THEN written(ReplaceAllExact(content, oldText, newText),
                         ExactCount(content, oldText))
            ELSE LET loop == ApproximateLoop(content, oldText, newText, 0)
                 IN IF ~loop.finishes
                    THEN [finishes |-> FALSE, outcome |-> NoOutcome, file |-> file]
                    ELSE IF loop.count = 0
                    THEN thrown(EditMatchError(loop.closest, DEFAULT_FUZZY_THRESHOLD))
                    ELSE written(loop.content, loop.count)
       ELSE LET matchOutcome == findEditMatch(content, oldText, allowFuzzy,
                                              DEFAULT_FUZZY_THRESHOLD)
            IN IF IsAmbiguous(matchOutcome)
               THEN thrown([Failure("AmbiguousMatch") EXCEPT
                               !.occurrences = matchOutcome.occurrences])
               ELSE IF MatchMissing(matchOutcome)
               THEN thrown(EditMatchError(matchOutcome.closest, DEFAULT_FUZZY_THRESHOLD))
               ELSE written(Splice(content, matchOutcome.match, newText), 1)

\* What call i makes, run alone, of the file system it began with.
AloneOf(i) ==
    LET c == ContextOf(i) IN RunAlone(c.before[c.request.path], c.request)

DifferentFiles ==
    \A i, j \in Invocations :
        i # j => ContextOf(i).request.path # ContextOf(j).request.path

\* A finished call threw or returned what it does alone (diagnostics aside,
\* they are the collaborator's), and its file is the one it leaves alone; a
\* call the write collaborator failed was about to succeed, and its file is
\* the old or the new one.
FinishedAsAlone(i) ==
    LET c == ContextOf(i)
        alone == AloneOf(i)
        file == files[c.request.path]
    IN Finished(i) =>
          /\ alone.finishes
          /\ IF c.outcome.kind = "CollaboratorFailure"
             THEN /\ alone.outcome.kind = "success"
                  /\ file \in {c.before[c.request.path], alone.file}
             ELSE /\ [c.outcome EXCEPT !.diagnostics = FALSE] = alone.outcome
                  /\ file = alone.file

\* The thread is inside an approximate loop that does not end.
ThreadNeverFreed == pc = "fuzzy" /\ ~AloneOf(self).finishes

\* A call that finishes alone is not left waiting for a thread that is never
\* freed.
NotHeldUp(i) == (AloneOf(i).finishes /\ ~Finished(i)) => ~ThreadNeverFreed

\* C11: when the calls target pairwise different files, every call ends as
\* it does when run alone, with the same result or error and the same final
\* content of its file, whatever the interleaving.
C11_DifferentFilesDoNotInterfere ==
    DifferentFiles => \A i \in Invocations : FinishedAsAlone(i) /\ NotHeldUp(i)

\* The part of C11 that does not depend on the loop ending.
C11_FinishedCallsAsAlone ==
    DifferentFiles => \A i \in Invocations : FinishedAsAlone(i)

SameFile ==
    \A i, j \in Invocations : ContextOf(i).request.path = ContextOf(j).request.path

\* The writes that reached file p, in order.
WritesTo(p) == SelectSeq(writes, LAMBDA w : w.path = p)

\* C12: when the calls target the same file, the file holds exactly what the
\* last write to reach it put there, and that is the edit of the writing call
\* applied to the content that call read: never a mix of two writes.
C12_LastWriterWins ==
    SameFile =>
        \A p \in ConcurrentPaths :
            LET w == WritesTo(p)
            IN Len(w) > 0 =>
                  LET last == w[Len(w)]
                      c == ContextOf(last.id)
                      asRead == [exists |-> TRUE, content |-> c.loc.rawContent]
                  IN /\ files[p] = [exists |-> TRUE, content |-> last.content]
                     /\ RunAlone(asRead, c.request).file = files[p]

\* Both calls wrote the same file, and the second writer had read the file
\* before the first write: the first writer's edit is lost.
C12_Witness ==
    /\ SameFile
    /\ Len(writes) = 2
    /\ writes[1].id # writes[2].id
    /\ ContextOf(writes[2].id).loc.rawContent # writes[1].content
    /\ files[writes[2].path].content = writes[2].content

\* ------------------------------------------- claims on snowflake identifiers

\* Lexicographic order of two strings of hex digits, as JavaScript compares
\* strings.
HexLess(x, y) ==
    \/ \E i \in 1..Min(Len(x), Len(y)) :
          /\ HexValue(x[i]) < HexValue(y[i])
          /\ \A j \in 1..(i - 1) : x[j] = y[j]
    \/ Len(x) < Len(y) /\ \A j \in 1..Len(x) : x[j] = y[j]

\* The recorded calls i..j were made with non-decreasing timestamps.
NonDecreasing(i, j) ==
    \A k \in i..(j - 1) : ~BigLess(minted[k + 1].timestamp, minted[k].timestamp)

\* C13: next(t) calls on one Source with non-decreasing timestamps t >= epoch
\* return strictly increasing identifiers, as 64-bit values and as fixed-width
\* hex strings; no identifier is returned twice.  Stated of the identifiers
\* that are 64-bit values, 16 hex digits wide.
C13_IdentifiersStrictlyIncrease ==
    \A i, j \in 1..Len(minted) :
        (i < j /\ NonDecreasing(i, j) /\ valid(minted[i].id) /\ valid(minted[j].id)) =>
            /\ BigLess(toBigInt(minted[i].id), toBigInt(minted[j].id))
            /\ HexLess(minted[i].id, minted[j].id)

\* x <= y for two identifiers, as 64-bit values and as hex strings.
AtMost(x, y) == ~BigLess(toBigInt(y), toBigInt(x)) /\ ~HexLess(y, x)

\* C15: for every timestamp t >= epoch and every sequence state of the
\* source, lowerbound(t, source) <= source.next(t) <= upperbound(t, source),
\* and each of the three is a 16-character lowercase hex string that valid()
\* accepts.
C15_BoundsEncloseNext ==
    \A k \in 1..Len(minted) :
        LET lower == lowerbound(minted[k].timestamp, source)
            upper == upperbound(minted[k].timestamp, source)
        IN /\ AtMost(lower, minted[k].id)
           /\ AtMost(minted[k].id, upper)
           /\ valid(lower)
           /\ valid(minted[k].id)
           /\ valid(upper)

\* C17: the sequence of a Source always lies in [0, 2^22 - 1], and for every
\* identifier returned by source.next(t), getSequence gives the source's
\* sequence right after the call and getTimestamp, with the source's epoch,
\* gives t.  Stated of the identifiers that are 16 hex digits wide.
C17_SequenceAndTimestampRecovered ==
    /\ sequence(source) \in 0..SequenceMask
    /\ \A k \in 1..Len(minted) :
          valid(minted[k].id) =>
              /\ getSequence(minted[k].id) = minted[k].sequence
              /\ getTimestamp(minted[k].id, source.epoch) = minted[k].timestamp

\* ------------------------------------------- claims on the custom-api registry

\* The registry as call k left it.
LeftBy(k) == IF k = Len(apiCalls) THEN customApiRegistry ELSE apiCalls[k + 1].found

\* C14: after unregisterCustomApis(s), getCustomApi(a) is undefined for every
\* api whose registration carried sourceId s, and every registration with
\* another sourceId or with none is unchanged; after clearCustomApis(),
\* getCustomApi is undefined for every api.
C14_SourceScopedRemoval ==
    \A k \in 1..Len(apiCalls) :
        LET call == apiCalls[k]
            after == LeftBy(k)
        IN /\ call.op = "unregister" =>
                 \A api \in Apis :
                     IF call.found[api].registered /\ call.found[api].sourceId = call.sourceId
                     THEN getCustomApi(after, api) = Undefined
                     ELSE after[api] = call.found[api]
           /\ call.op = "clear" =>
                 \A api \in Apis : getCustomApi(after, api) = Undefined

\* unregisterCustomApis(s) found one api registered by s and one registered
\* by another source or by none, and removed only the first.
C14_Witness ==
    \E k \in 1..Len(apiCalls) :
        /\ apiCalls[k].op = "unregister"
        /\ \E a, b \in Apis :
              /\ apiCalls[k].found[a].registered
              /\ apiCalls[k].found[a].sourceId = apiCalls[k].sourceId
              /\ apiCalls[k].found[b].registered
              /\ apiCalls[k].found[b].sourceId # apiCalls[k].sourceId
              /\ getCustomApi(LeftBy(k), a) = Undefined
              /\ getCustomApi(LeftBy(k), b) # Undefined

\* The calls that registered api, and whether call k is a removal that
\* takes away what call r registered.
Registrations(api) ==
    {k \in 1..Len(apiCalls) : apiCalls[k].op = "register" /\ apiCalls[k].api = api}
Removes(k, r) ==
    \/ apiCalls[k].op = "clear"
    \/ apiCalls[k].op = "unregister" /\ apiCalls[k].sourceId = apiCalls[r].sourceId

\* C16: after any sequence of calls each api has at most one registration: the
\* handler and sourceId of the most recent registerCustomApi for it, unless a
\* later clearCustomApis or unregisterCustomApis of that sourceId removed it;
\* an earlier registration is never restored.
C16_MostRecentRegistrationWins ==
    \A api \in Apis :
        LET regs == Registrations(api)
        IN IF regs = {}
           THEN ~customApiRegistry[api].registered
           ELSE LET r == CHOOSE k \in regs : \A j \in regs : j <= k
                IN IF \E k \in (r + 1)..Len(apiCalls) : Removes(k, r)
                   THEN getCustomApi(customApiRegistry, api) = Undefined
                   ELSE customApiRegistry[api] =
                            Entry(apiCalls[r].streamSimple, apiCalls[r].sourceId)

\* Source A registered an api, source B registered it again with another
\* handler, and then unregisterCustomApis removed one of the two sources: B's
\* handler stays when A is removed and nothing is left when B is removed.
C16_Witness ==
    /\ Len(apiCalls) = 3
    /\ apiCalls[1].op = "register" /\ apiCalls[1].sourceId = "A"
    /\ apiCalls[2].op = "register" /\ apiCalls[2].sourceId = "B"
    /\ apiCalls[2].api = apiCalls[1].api
    /\ apiCalls[2].streamSimple # apiCalls[1].streamSimple
    /\ apiCalls[3].op = "unregister"
    /\ getCustomApi(customApiRegistry, apiCalls[1].api) =
           IF apiCalls[3].sourceId = "A" THEN apiCalls[2].streamSimple ELSE Undefined

====
